---- MODULE Spec2Model ----
(***************************************************************************)
(* The multi-wallet session manager of the XDC GOAT MCP server            *)
(* (xdcmcpserveradvRef3.ts; the same logic is repeated in                 *)
(* tools-xdc-goat.ts / xdcGoatMain1.ts): the wallet registry loaded from  *)
(* the environment, the active wallet, the GOAT tool set bound to it, and *)
(* the request handlers that switch, read and rebuild them.  A handler    *)
(* runs to its next await as one step; requests interleave at the awaits. *)
(* The last part models the Polytrade721Wrapper contract the ERC-6960      *)
(* tools talk to: one transaction is one step, a revert changes nothing.  *)
(***************************************************************************)
EXTENDS Integers, Sequences, FiniteSets, Bags, TLC

\* ---------------------------------------------------------------- bounds
\* Request handlers that may be suspended at an await at the same time.
MaxInflight == 2
\* Environment slots that hold a well-formed key in the server runs.
MaxLoaded == 2
\* Handlers that may be dispatched into a chain-client call while another waits in one.
MaxCalling == 1
\* In the runs with the chain-facing handlers only the first MaxOpsSlot slots
\* (MetaMask seller, buyer, financier and Crossmint seller) may hold a key.
MaxOpsSlot == 4
\* Externally owned accounts that send transactions to the wrapper contract.
NumAccounts == 2
\* Tokens of the ERC-721 contract that can be wrapped.
NumTokens == 1
\* Main ids the wrapper hands out before the runs stop wrapping.
MaxMainId == 1
\* Longest subIds / shares array passed to wrapNFT.
MaxSubIds == 2
\* The largest value of the unsigned integer type: type(uint256).max scaled
\* down, so that the checked additions of Solidity 0.8 can overflow.
MaxUint == 2

\* ------------------------------------------------------------- constants
\* Number of hex digits the key pattern requires after "0x".
KeyHexLen == 64

None == "none"

\* uint256 private _currentMainId = 1
FirstMainId == 1
\* The sub ids unwrapNFT looks at.
checkSubIds == << 101, 102 >>

\* The ordered list of configuration slots of loadWallets.
configs ==
  << [env |-> "CAT_MM_SELLER_WALLET_PRIVATE_KEY", id |-> "catmm_seller", role |-> "seller", provider |-> "metamask"],
     [env |-> "CAT_MM_BUYER_WALLET_PRIVATE_KEY", id |-> "catmm_buyer", role |-> "buyer", provider |-> "metamask"],
     [env |-> "CAT_MM_FINANCIER_WALLET_PRIVATE_KEY", id |-> "catmm_financier", role |-> "financier", provider |-> "metamask"],
     [env |-> "CM_SELLER_WALLET_PRIVATE_KEY", id |-> "cm_seller", role |-> "seller", provider |-> "crossmint"],
     [env |-> "CM_BUYER_WALLET_PRIVATE_KEY", id |-> "cm_buyer", role |-> "buyer", provider |-> "crossmint"],
     [env |-> "CVC_SELLER_WALLET_PRIVATE_KEY", id |-> "cvc_seller", role |-> "seller", provider |-> "civic"],
     [env |-> "CVC_BUYER_WALLET_PRIVATE_KEY", id |-> "cvc_buyer", role |-> "buyer", provider |-> "civic"],
     [env |-> "WALLET_PRIVATE_KEY", id |-> "legacy_main", role |-> "legacy", provider |-> "legacy"] >>

Slots == 1..Len(configs)

\* The provider enum the two switch tools accept (zod schema).
Providers == {"metamask", "crossmint", "civic"}
\* switch_to_seller and switch_to_buyer.
SwitchRoles == {"seller", "buyer"}

\* ---------------------------------------------------------------- secrets
\* A secret string of the environment, by the features the loader looks at:
\* whether it starts with "0x", how many characters follow, whether those
\* are all hex digits, and whether the scalar is one the curve accepts
\* (privateKeyToAccount throws otherwise).  NoSecret is an unset variable.
NoSecret == [set |-> FALSE, has0x |-> FALSE, digits |-> 0, allHex |-> FALSE, scalarOk |-> FALSE]
GoodKey == [set |-> TRUE, has0x |-> TRUE, digits |-> KeyHexLen, allHex |-> TRUE, scalarOk |-> TRUE]
PlaceholderKey == [set |-> TRUE, has0x |-> TRUE, digits |-> 0, allHex |-> TRUE, scalarOk |-> FALSE]
ZeroKey == [set |-> TRUE, has0x |-> TRUE, digits |-> KeyHexLen, allHex |-> TRUE, scalarOk |-> FALSE]

\* pk && pk !== '0x' && /^0x[a-fA-F0-9]{64}$/.test(pk)
PassesKeyTest(pk) ==
  /\ pk.set
  /\ ~(pk.has0x /\ pk.digits = 0)
  /\ pk.has0x /\ pk.digits = KeyHexLen /\ pk.allHex

\* privateKeyToAccount: the address of the key in slot i, or a throw.
AccountThrows(pk) == ~pk.scalarOk
AddressOf(i) == <<"address", i>>

NullWallet == [id |-> None, role |-> None, provider |-> None, privateKey |-> <<"key", 0>>, publicAddress |-> <<"address", 0>>]

\* The Wallet object built for slot i.
WalletOf(i) ==
  [id |-> configs[i].id, role |-> configs[i].role, provider |-> configs[i].provider,
   privateKey |-> <<"key", i>>, publicAddress |-> AddressOf(i)]

\* Mutant: no try/catch around privateKeyToAccount, the first throw ends the loop.
RECURSIVE LoadFromAbortsOnThrow(_, _)
LoadFromAbortsOnThrow(e, i) ==
  IF i > Len(configs) THEN << >>
  ELSE IF PassesKeyTest(e[i]) /\ AccountThrows(e[i]) THEN << >>
  ELSE IF PassesKeyTest(e[i])
       THEN << WalletOf(i) >> \o LoadFromAbortsOnThrow(e, i + 1)
       ELSE LoadFromAbortsOnThrow(e, i + 1)

\* configs.forEach: the wallets admitted, in slot order.
RECURSIVE LoadFrom(_, _)
LoadFrom(e, i) ==
  IF i > Len(configs) THEN << >>
  ELSE IF PassesKeyTest(e[i]) /\ ~AccountThrows(e[i])
       THEN << WalletOf(i) >> \o LoadFrom(e, i + 1)
       ELSE LoadFrom(e, i + 1)

LoadedWallets(e) == LoadFrom(e, 1)

\* Array.prototype.filter / find on a list of wallets.
FilterRole(ws, role) == SelectSeq(ws, LAMBDA w : w.role = role)
FirstOr(ws, dflt) == IF Len(ws) > 0 THEN ws[1] ELSE dflt

\* Mutant: the seller preference dropped, the first loaded wallet is taken.
DefaultWalletFirstLoaded(loaded) ==
  LET prio == SelectSeq(loaded, LAMBDA w : w.id = "catmm_seller")
  IN IF Len(prio) > 0 THEN prio[1]
     ELSE IF Len(loaded) > 0 THEN loaded[1] ELSE NullWallet

\* Mutant: only sellers are eligible, no fallback to the first loaded wallet.
DefaultWalletSellersOnly(loaded) ==
  LET prio == SelectSeq(loaded, LAMBDA w : w.id = "catmm_seller")
      sellers == FilterRole(loaded, "seller")
  IN IF Len(prio) > 0 THEN prio[1] ELSE FirstOr(sellers, NullWallet)

\* The default selection at the end of loadWallets.
DefaultWallet(loaded) ==
  LET prio == SelectSeq(loaded, LAMBDA w : w.id = "catmm_seller")
      sellers == FilterRole(loaded, "seller")
  IN IF Len(prio) > 0 THEN prio[1]
     ELSE IF Len(loaded) > 0
          THEN FirstOr(sellers, loaded[1])
          ELSE NullWallet

\* ------------------------------------------------------------------ state
VARIABLES
  phase,                  \* "boot", "module" (top level running), "loaded" (manager
                          \* constructed), "starting", "serving"
  env,                    \* process.env: slot -> secret
  wallets,                \* WalletConfigManager.wallets, in insertion order
  currentWallet,          \* WalletConfigManager.currentWallet
  lastActiveWalletId,     \* WalletConfigManager.lastActiveWalletId
  goatTools,              \* the tool set: NoTools or [wallet |-> id it signs for]
  goatToolsLastWalletId,  \* the marker of the wallet goatTools was built for
  registered,             \* the toolHandler the server's goat_* tools close over
  inflight,               \* the handlers suspended at an await: a bag of their locals
  response,               \* the latest result returned to the client
  logged,                 \* the environment slots whose secret was written to the log in full
  restoreAttempted,       \* whether the latest handler step called restoreLastActiveWallet
  _balances,              \* Polytrade721Wrapper: mainId -> subId -> account -> amount
  _totalSupply,           \* mainId -> subId -> amount
  _operatorApprovals,     \* account -> operator -> bool
  wrappedNFTs,            \* mainId -> WrappedNFT record
  nftToMainId,            \* tokenId -> mainId (of the one ERC-721 contract)
  _currentMainId,         \* the next main id
  nftOwner,               \* the ERC-721 contract: ownerOf(tokenId)
  nftApproved,            \* the ERC-721 contract: whether the wrapper may move tokenId
  receipt                 \* the function of the latest transaction sent to the wrapper and its outcome

sessionVars == << phase, env, wallets, currentWallet, lastActiveWalletId, goatTools,
                  goatToolsLastWalletId, registered, inflight, response, logged,
                  restoreAttempted >>

contractVars == << _balances, _totalSupply, _operatorApprovals, wrappedNFTs, nftToMainId,
                   _currentMainId, nftOwner, nftApproved >>

wrapperVars == << contractVars, receipt >>

vars == << sessionVars, wrapperVars >>

NoTools == [wallet |-> None]

\* --------------------------------------------------- WalletConfigManager
\* this.wallets.get(id)
WalletsGet(id) ==
  LET hit == SelectSeq(wallets, LAMBDA w : w.id = id)
  IN FirstOr(hit, NullWallet)

getAllWallets == wallets

getWalletsByRole(role) == SelectSeq(wallets, LAMBDA w : w.role = role)

\* Mutant: the provider is not compared, the first wallet of the role is returned.
getWalletByRoleAndProviderFirstOfRole(role, provider) ==
  FirstOr(SelectSeq(wallets, LAMBDA w : w.role = role), NullWallet)

getWalletByRoleAndProvider(role, provider) ==
  FirstOr(SelectSeq(wallets, LAMBDA w : w.role = role /\ w.provider = provider), NullWallet)

\* switchWallet(id): false when the id is unknown, else both fields are set.
switchWalletFinds(id) == WalletsGet(id) # NullWallet

\* Mutant: the last-active id is left as it was.
switchWalletKeepsLast(id) ==
  /\ currentWallet' = WalletsGet(id)
  /\ UNCHANGED lastActiveWalletId

\* Mutant: a switch that arrives while another handler is suspended is dropped.
switchWalletFirstWriterWins(id) ==
  IF inflight # EmptyBag
  THEN UNCHANGED << currentWallet, lastActiveWalletId >>
  ELSE /\ currentWallet' = WalletsGet(id)
       /\ lastActiveWalletId' = id

switchWallet(id) ==
  /\ currentWallet' = WalletsGet(id)
  /\ lastActiveWalletId' = id

\* Mutant: the restore only acts when no wallet is current.
restoreLastActiveWalletOnlyWhenUnset ==
  IF currentWallet = NullWallet /\ lastActiveWalletId # None
     /\ WalletsGet(lastActiveWalletId) # NullWallet
  THEN WalletsGet(lastActiveWalletId)
  ELSE NullWallet

\* restoreLastActiveWallet(): the wallet it makes current, NullWallet when it returns false.
restoreLastActiveWallet ==
  IF lastActiveWalletId # None /\ WalletsGet(lastActiveWalletId) # NullWallet
  THEN WalletsGet(lastActiveWalletId)
  ELSE NullWallet

\* Mutant: a successful restore uses the last-active id up.
restoreLastActiveWalletConsumes ==
  /\ currentWallet' = IF restoreLastActiveWallet # NullWallet
                      THEN restoreLastActiveWallet ELSE currentWallet
  /\ lastActiveWalletId' = IF restoreLastActiveWallet # NullWallet
                           THEN None ELSE lastActiveWalletId

\* restoreLastActiveWallet(): what the call assigns.
restoreLastActiveWalletAssigns ==
  /\ currentWallet' = IF restoreLastActiveWallet # NullWallet
                      THEN restoreLastActiveWallet ELSE currentWallet
  /\ UNCHANGED lastActiveWalletId

\* Mutant: the handler goes on without calling restoreLastActiveWallet.
AttemptsRestoreNever == FALSE

\* if (!walletManager.getCurrentWallet()) walletManager.restoreLastActiveWallet():
\* whether the handler calls the restore.
AttemptsRestore == currentWallet = NullWallet

\* Mutant: with a wallet current the handler falls back to the default selection.
WalletAfterRestoreResetsDefault ==
  IF AttemptsRestore /\ restoreLastActiveWallet # NullWallet
  THEN restoreLastActiveWallet
  ELSE DefaultWallet(wallets)

\* The first lines of every handler: restore if no wallet is current, then read it.
WalletAfterRestore ==
  IF AttemptsRestore /\ restoreLastActiveWallet # NullWallet
  THEN restoreLastActiveWallet
  ELSE currentWallet

\* Mutant: the requested provider is not looked up.
SwitchTargetIgnoresProvider(role, provider) ==
  FirstOr(getWalletsByRole(role), NullWallet)

\* Mutant: the fallback widens to the first wallet of any role.
SwitchTargetAnyRole(role, provider) ==
  LET exact == getWalletByRoleAndProvider(role, provider)
  IN IF exact # NullWallet THEN exact
     ELSE IF getWalletsByRole(role) # << >> THEN getWalletsByRole(role)[1]
     ELSE FirstOr(wallets, NullWallet)

\* Mutant: the fallback takes the last wallet of the role.
SwitchTargetLastOfRole(role, provider) ==
  LET exact == getWalletByRoleAndProvider(role, provider)
      ofRole == getWalletsByRole(role)
  IN IF exact # NullWallet THEN exact
     ELSE IF Len(ofRole) > 0 THEN ofRole[Len(ofRole)] ELSE NullWallet

\* The target lookup of switch_to_seller / switch_to_buyer: the wallet of the
\* requested provider, else the first wallet of the role, else none.
SwitchTarget(role, provider) ==
  LET exact == IF provider \in Providers
               THEN getWalletByRoleAndProvider(role, provider)
               ELSE NullWallet
  IN IF exact # NullWallet THEN exact
     ELSE FirstOr(getWalletsByRole(role), NullWallet)

\* ------------------------------------------------------------- GOAT tools
\* Mutant: forceReinit is ignored, a bound tool set is always reused.
initializeGoatToolsEntryNoForce(cw, forceReinit) ==
  IF cw = NullWallet THEN "nowallet"
  ELSE IF goatTools # NoTools /\ goatToolsLastWalletId = cw.id THEN "ready"
  ELSE "construct"

\* initializeGoatTools(forceReinit) up to its first await, for current wallet cw:
\* "nowallet" (clears the bound fields, returns false), "ready" (returns true,
\* nothing built) or "construct" (suspends in getOnChainTools).
initializeGoatToolsEntry(cw, forceReinit) ==
  IF cw = NullWallet THEN "nowallet"
  ELSE IF ~forceReinit /\ goatTools # NoTools /\ goatToolsLastWalletId = cw.id THEN "ready"
  ELSE "construct"

\* Mutant: the marker is not compared, any tool set counts as ready.
ensureGoatToolsEntryAnyTools(cw) ==
  IF cw = NullWallet THEN "false"
  ELSE IF goatTools = NoTools THEN "construct"
  ELSE "ready"

\* ensureGoatToolsForCurrentWallet() up to its first await: "false" (no wallet),
\* "ready" (returns true) or what initializeGoatTools(true) does.
ensureGoatToolsEntry(cw) ==
  IF cw = NullWallet THEN "false"
  ELSE IF goatTools = NoTools \/ goatToolsLastWalletId # cw.id
       THEN initializeGoatToolsEntry(cw, TRUE)
       ELSE "ready"

\* Mutant: the wallet client is made from the wallet current when the build resolves.
BuiltForActive(w) == [wallet |-> currentWallet.id]

\* The tool set getOnChainTools builds from the wallet client of wallet w.
BuiltFor(w) == [wallet |-> w.id]

\* ------------------------------------------------------------- responses
Reply(body) == response' = body

SwitchedBody(role, provider, target, goatInitSuccess) ==
  [kind |-> "switched", tool |-> role, requested |-> provider, wallet |-> target,
   notHonored |-> (target.provider # provider),
   goatToolsReinitialized |-> goatInitSuccess]

NotFoundBody(role, provider) ==
  [kind |-> "IdentityNotFound", tool |-> role, requested |-> provider,
   availableWallets |-> getAllWallets]

CurrentBody(wallet, goatReady, marker) ==
  [kind |-> "current", wallet |-> wallet, goatIntegration |-> goatReady,
   goatToolsWalletMatch |-> (marker = wallet.id)]

\* Mutant: the missing wallet surfaces as the text of a caught exception.
NoActiveBodyUnstructured(op) == [kind |-> "ChainOperationFailed", op |-> op]

\* The "No active wallet" result with its instruction to switch ("No wallet
\* configured" with instructions in get_wallet_info).
NoActiveBody(op) == [kind |-> "NoActiveIdentity", op |-> op]

\* What the suspended handler returns once initializeGoatTools has returned ret.
Continue(c, ret, marker) ==
  IF c.op = "switch" THEN SwitchedBody(c.role, c.provider, c.local, ret)
  ELSE CurrentBody(c.local, ret, marker)

\* ------------------------------------------------------ suspended handlers
\* At most MaxInflight handlers are suspended at a time.
HasFreeSlot == BagCardinality(inflight) < MaxInflight
Suspend(c) == inflight' = inflight (+) SetToBag({c})
Suspended == BagToSet(inflight)

\* The locals of a handler suspended inside initializeGoatTools: the operation,
\* the arguments of a switch, the handler's wallet, and the currentWallet
\* that initializeGoatTools read before its await.
Building(op, role, provider, local, cw) ==
  [op |-> op, stage |-> "goat", role |-> role, provider |-> provider,
   local |-> local, currentWallet |-> cw, goatReady |-> FALSE]

\* The locals of a handler suspended in a chain-client call: the operation, the
\* handler's wallet, the wallet createDynamicWalletClient took the signing key
\* from (NullWallet for a read), and what the ensure call returned.
Calling(op, local, signer, goatReady) ==
  [op |-> op, stage |-> "chain", role |-> None, provider |-> None,
   local |-> local, currentWallet |-> signer, goatReady |-> goatReady]

\* The handlers that go on to a chain-client call after the ensure call.
TwoStageOps == {"get_wallet_info", "mint_nft_advanced"}

\* A newly dispatched handler may suspend in a chain-client call.
InCall == [ c \in { d \in Suspended : d.stage = "chain" } |-> CopiesIn(c, inflight) ]
HasFreeCall == HasFreeSlot /\ BagCardinality(InCall) < MaxCalling

\* --------------------------------------------- the wrapper contract's state
\* The accounts that send transactions and hold shares; address(0), the default
\* of an address field; address(this), the wrapper as a holder of NFTs.
Accounts == 1..NumAccounts
ZeroAddress == 0
Wrapper == NumAccounts + 1
Tokens == 1..NumTokens

\* The main ids issued within the runs, and the values a caller may pass as one.
MainIds == FirstMainId..MaxMainId
MainIdInputs == 0..MaxMainId
\* The sub ids a caller may pass: the two unwrapNFT looks at and another one.
SubIdInputs == { checkSubIds[1], checkSubIds[2], checkSubIds[2] + 1 }
Uints == 0..MaxUint

\* A storage slot of wrappedNFTs that was never written.
NoWrappedNFT ==
  [originalTokenId |-> 0, originalOwner |-> ZeroAddress, totalShares |-> 0, mainId |-> 0,
   isWrapped |-> FALSE, subIdShares |-> [s \in SubIdInputs |-> 0]]

\* The contract after deployment, with the NFTs owned as owners says.
Deployed(owners) ==
  /\ _balances = [m \in MainIdInputs |-> [s \in SubIdInputs |-> [a \in Accounts |-> 0]]]
  /\ _totalSupply = [m \in MainIdInputs |-> [s \in SubIdInputs |-> 0]]
  /\ _operatorApprovals = [a \in Accounts |-> [o \in Accounts |-> FALSE]]
  /\ wrappedNFTs = [m \in MainIdInputs |-> NoWrappedNFT]
  /\ nftToMainId = [t \in Tokens |-> 0]
  /\ _currentMainId = FirstMainId
  /\ nftOwner = owners
  /\ nftApproved = [t \in Tokens |-> FALSE]
  /\ receipt = [fn |-> None, status |-> None, reason |-> None]

\* ---------------------------------------------------------------- startup
\* The server process before its first statement.
EmptySession ==
  /\ phase = "boot"
  /\ wallets = << >>
  /\ currentWallet = NullWallet
  /\ lastActiveWalletId = None
  /\ goatTools = NoTools
  /\ goatToolsLastWalletId = None
  /\ registered = NoTools
  /\ inflight = EmptyBag
  /\ response = [kind |-> None]
  /\ logged = {}
  /\ restoreAttempted = FALSE

\* The server runs send no transaction to the wrapper: it stays as deployed.
EmptyState ==
  /\ EmptySession
  /\ Deployed([t \in Tokens |-> 1])

\* Server runs: every slot is unset or holds a well-formed key, at most MaxLoaded do.
Init ==
  /\ env \in { e \in [Slots -> {NoSecret, GoodKey}] :
                 Cardinality({ i \in Slots : e[i] = GoodKey }) <= MaxLoaded }
  /\ EmptyState

\* No handler has run a restore in this step.
NoRestore == restoreAttempted' = FALSE

\* The slot of the legacy variable WALLET_PRIVATE_KEY.
LegacySlot == CHOOSE i \in Slots : configs[i].env = "WALLET_PRIVATE_KEY"

\* The console.log calls of the module top level: the value of
\* WALLET_PRIVATE_KEY is printed as it is (undefined when unset).
LogEnvironment ==
  /\ phase = "boot"
  /\ phase' = "module"
  /\ logged' = IF env[LegacySlot].set THEN logged \cup {LegacySlot} ELSE logged
  /\ NoRestore
  /\ UNCHANGED << env, wallets, currentWallet, lastActiveWalletId, goatTools,
                  goatToolsLastWalletId, registered, inflight, response >>
  /\ UNCHANGED wrapperVars

\* new WalletConfigManager(): loadWallets().  Its log lines carry the slot name,
\* the wallet name, the derived address and the role, never the key.
LoadWallets ==
  /\ phase = "module"
  /\ phase' = "loaded"
  /\ wallets' = LoadedWallets(env)
  /\ currentWallet' = DefaultWallet(wallets')
  /\ lastActiveWalletId' = currentWallet'.id
  /\ NoRestore
  /\ UNCHANGED << env, goatTools, goatToolsLastWalletId, registered, inflight, response, logged >>
  /\ UNCHANGED wrapperVars

\* runServer(): await initializeGoatTools(), then server.connect.
RunServer ==
  /\ phase = "loaded"
  /\ LET entry == initializeGoatToolsEntry(currentWallet, FALSE)
     IN IF entry = "construct"
        THEN /\ phase' = "starting"
             /\ Suspend(Building("runServer", None, None, NullWallet, currentWallet))
             /\ UNCHANGED << goatTools, goatToolsLastWalletId >>
        ELSE /\ phase' = "serving"
             /\ goatTools' = IF entry = "nowallet" THEN NoTools ELSE goatTools
             /\ goatToolsLastWalletId' = IF entry = "nowallet" THEN None ELSE goatToolsLastWalletId
             /\ UNCHANGED inflight
  /\ NoRestore
  /\ UNCHANGED << env, wallets, currentWallet, lastActiveWalletId, registered, response, logged >>
  /\ UNCHANGED wrapperVars

\* --------------------------------------------------------------- handlers
\* switch_to_seller / switch_to_buyer, up to the await of initializeGoatTools(true).
SwitchTo(role, provider) ==
  /\ phase = "serving"
  /\ LET target == SwitchTarget(role, provider)
     IN IF target = NullWallet
        THEN /\ Reply(NotFoundBody(role, provider))
             /\ UNCHANGED << currentWallet, lastActiveWalletId, inflight >>
        ELSE IF ~switchWalletFinds(target.id)
        THEN /\ Reply([kind |-> "error", op |-> "switch"])
             /\ UNCHANGED << currentWallet, lastActiveWalletId, inflight >>
        ELSE /\ switchWallet(target.id)
             /\ LET entry == initializeGoatToolsEntry(currentWallet', TRUE)
                IN IF entry = "construct"
                   THEN /\ HasFreeSlot
                        /\ Suspend(Building("switch", role, provider, target, currentWallet'))
                        /\ UNCHANGED response
                   ELSE /\ Reply(SwitchedBody(role, provider, target, entry = "ready"))
                        /\ UNCHANGED inflight
  /\ NoRestore
  /\ UNCHANGED << phase, env, wallets, goatTools, goatToolsLastWalletId, registered, logged >>
  /\ UNCHANGED wrapperVars

\* get_current_wallet, up to the await inside ensureGoatToolsForCurrentWallet.
GetCurrentWallet ==
  /\ phase = "serving"
  /\ LET wallet == WalletAfterRestore
         entry == ensureGoatToolsEntry(wallet)
     IN /\ currentWallet' = wallet
        /\ IF wallet = NullWallet
           THEN /\ Reply(NoActiveBody("get_current_wallet"))
                /\ UNCHANGED inflight
           ELSE IF entry = "construct"
                THEN /\ HasFreeSlot
                     /\ Suspend(Building("get_current_wallet", None, None, wallet, wallet))
                     /\ UNCHANGED response
                ELSE /\ Reply(CurrentBody(wallet, entry = "ready", goatToolsLastWalletId))
                     /\ UNCHANGED inflight
  /\ restoreAttempted' = AttemptsRestore
  /\ UNCHANGED << phase, env, wallets, lastActiveWalletId, goatTools, goatToolsLastWalletId,
                  registered, logged >>
  /\ UNCHANGED wrapperVars

\* Mutant: the listing reverses the registry in place.
ListWalletsReordersRegistry ==
  /\ phase = "serving"
  /\ Reply([kind |-> "list", total |-> Len(getAllWallets), currentWallet |-> currentWallet.id])
  /\ wallets' = [ k \in 1..Len(wallets) |-> wallets[Len(wallets) + 1 - k] ]
  /\ NoRestore
  /\ UNCHANGED << phase, env, currentWallet, lastActiveWalletId, goatTools,
                  goatToolsLastWalletId, registered, inflight, logged >>
  /\ UNCHANGED wrapperVars

\* list_wallets.
ListWallets ==
  /\ phase = "serving"
  /\ Reply([kind |-> "list", total |-> Len(getAllWallets), currentWallet |-> currentWallet.id])
  /\ NoRestore
  /\ UNCHANGED << phase, env, wallets, currentWallet, lastActiveWalletId, goatTools,
                  goatToolsLastWalletId, registered, inflight, logged >>
  /\ UNCHANGED wrapperVars

\* A goat_* tool call: the registered closure forwards to the toolHandler it captured.
GoatTool ==
  /\ phase = "serving"
  /\ registered # NoTools
  /\ Reply([kind |-> "goat", handler |-> registered.wallet, active |-> currentWallet.id])
  /\ NoRestore
  /\ UNCHANGED << phase, env, wallets, currentWallet, lastActiveWalletId, goatTools,
                  goatToolsLastWalletId, registered, inflight, logged >>
  /\ UNCHANGED wrapperVars

\* ------------------------------------------- initializeGoatTools, resumed
\* The suspended handler c returns after initializeGoatTools returned ret.
\* get_wallet_info and mint_nft_advanced go on to their chain-client call:
\* mint_nft_advanced creates its signing client from the wallet current now.
Return(c, ret) ==
  IF c.op \in TwoStageOps
  THEN /\ inflight' = (inflight (-) SetToBag({c})) (+)
                      SetToBag({Calling(c.op, c.local,
                                        IF c.op = "mint_nft_advanced" THEN currentWallet
                                        ELSE NullWallet, ret)})
       /\ UNCHANGED << phase, response >>
  ELSE /\ inflight' = inflight (-) SetToBag({c})
       /\ IF c.op = "runServer"
          THEN phase' = "serving" /\ UNCHANGED response
          ELSE Reply(Continue(c, ret, goatToolsLastWalletId')) /\ UNCHANGED phase

\* Mutant: the marker survives the failure.
ClearBoundKeepsMarker ==
  /\ goatTools' = NoTools
  /\ UNCHANGED goatToolsLastWalletId

\* catch: both bound fields are cleared, false is returned.
ClearBound ==
  /\ goatTools' = NoTools
  /\ goatToolsLastWalletId' = None

\* getOnChainTools rejects.
ConstructionFails(c) ==
  /\ c.stage = "goat"
  /\ ClearBound
  /\ Return(c, FALSE)
  /\ NoRestore
  /\ UNCHANGED << env, wallets, currentWallet, lastActiveWalletId, registered, logged >>
  /\ UNCHANGED wrapperVars

\* getOnChainTools resolves and every goat_* tool is registered.
ConstructionSucceeds(c) ==
  /\ c.stage = "goat"
  /\ goatTools' = BuiltFor(c.currentWallet)
  /\ goatToolsLastWalletId' = c.currentWallet.id
  /\ registered' = goatTools'
  /\ Return(c, TRUE)
  /\ NoRestore
  /\ UNCHANGED << env, wallets, currentWallet, lastActiveWalletId, logged >>
  /\ UNCHANGED wrapperVars

\* getOnChainTools resolves, server.tool throws on a name registered before.
RegistrationThrows(c) ==
  /\ c.stage = "goat"
  /\ registered # NoTools
  /\ ClearBound
  /\ Return(c, FALSE)
  /\ NoRestore
  /\ UNCHANGED << env, wallets, currentWallet, lastActiveWalletId, registered, logged >>
  /\ UNCHANGED wrapperVars

Next ==
  \/ LogEnvironment
  \/ LoadWallets
  \/ RunServer
  \/ \E role \in SwitchRoles, provider \in Providers : SwitchTo(role, provider)
  \/ GetCurrentWallet
  \/ ListWallets
  \/ GoatTool
  \/ \E c \in Suspended : ConstructionFails(c)
  \/ \E c \in Suspended : ConstructionSucceeds(c)
  \/ \E c \in Suspended : RegistrationThrows(c)

Spec == Init /\ [][Next]_vars

\* Loader runs: every assignment of secret forms to the slots, then the load.
SecretForms == {NoSecret, GoodKey, PlaceholderKey, ZeroKey}

InitLoad ==
  /\ env \in [Slots -> SecretForms]
  /\ EmptyState

NextLoad == LogEnvironment \/ LoadWallets

SpecLoad == InitLoad /\ [][NextLoad]_vars

\* ------------------------------------------------- chain-facing handlers
\* mint_erc6960_batch, transfer_erc6960, mint_nft_with_active_wallet and send_eth:
\* restore, read the wallet, create the signing client, call the chain.
SignerOps == {"mint_erc6960_batch", "transfer_erc6960", "mint_nft_with_active_wallet", "send_eth"}

ChainErrorBody(op) == [kind |-> "ChainOperationFailed", op |-> op]

ChainSuccessBody(c) ==
  [kind |-> "success", op |-> c.op, walletName |-> c.local.id, signer |-> c.currentWallet.id]

WalletInfoBody(c, balanceRead, marker) ==
  [kind |-> "walletinfo", walletName |-> c.local.id, balance |-> balanceRead,
   goatIntegration |-> c.goatReady, goatToolsWalletMatch |-> (marker = c.local.id)]

\* get_wallet_info, up to its first await (the ensure call or getBalance).
GetWalletInfo ==
  /\ phase = "serving"
  /\ LET wallet == WalletAfterRestore
         entry == ensureGoatToolsEntry(wallet)
     IN /\ currentWallet' = wallet
        /\ IF wallet = NullWallet
           THEN /\ Reply(NoActiveBody("get_wallet_info"))
                /\ UNCHANGED inflight
           ELSE /\ IF entry = "construct"
                   THEN /\ HasFreeSlot
                        /\ Suspend(Building("get_wallet_info", None, None, wallet, wallet))
                   ELSE /\ HasFreeCall
                        /\ Suspend(Calling("get_wallet_info", wallet, NullWallet, entry = "ready"))
                /\ UNCHANGED response
  /\ restoreAttempted' = AttemptsRestore
  /\ UNCHANGED << phase, env, wallets, lastActiveWalletId, goatTools, goatToolsLastWalletId,
                  registered, logged >>
  /\ UNCHANGED wrapperVars

\* mint_nft_advanced, up to its first await; argsOk: the arguments fit the standard.
MintNftAdvanced(argsOk) ==
  /\ phase = "serving"
  /\ LET wallet == WalletAfterRestore
         entry == ensureGoatToolsEntry(wallet)
     IN /\ currentWallet' = wallet
        /\ IF wallet = NullWallet
           THEN /\ Reply(NoActiveBody("mint_nft_advanced"))
                /\ UNCHANGED inflight
           ELSE IF entry = "construct"
           THEN /\ HasFreeSlot
                /\ Suspend(Building("mint_nft_advanced", None, None, wallet, wallet))
                /\ UNCHANGED response
           ELSE IF argsOk
           THEN /\ HasFreeCall
                /\ Suspend(Calling("mint_nft_advanced", wallet, currentWallet', entry = "ready"))
                /\ UNCHANGED response
           ELSE /\ Reply(ChainErrorBody("mint_nft_advanced"))
                /\ UNCHANGED inflight
  /\ restoreAttempted' = AttemptsRestore
  /\ UNCHANGED << phase, env, wallets, lastActiveWalletId, goatTools, goatToolsLastWalletId,
                  registered, logged >>
  /\ UNCHANGED wrapperVars

\* One of the four handlers that sign without the ensure call.
SignerOp(op, argsOk) ==
  /\ phase = "serving"
  /\ LET wallet == WalletAfterRestore
     IN /\ currentWallet' = wallet
        /\ IF wallet = NullWallet
           THEN /\ Reply(NoActiveBody(op))
                /\ UNCHANGED inflight
           ELSE IF argsOk
           THEN /\ HasFreeCall
                /\ Suspend(Calling(op, wallet, currentWallet', FALSE))
                /\ UNCHANGED response
           ELSE /\ Reply(ChainErrorBody(op))
                /\ UNCHANGED inflight
  /\ restoreAttempted' = AttemptsRestore
  /\ UNCHANGED << phase, env, wallets, lastActiveWalletId, goatTools, goatToolsLastWalletId,
                  registered, logged >>
  /\ UNCHANGED wrapperVars

\* get_erc6960_balance: a contract read, no wallet involved.
GetErc6960Balance(argsOk) ==
  /\ phase = "serving"
  /\ IF argsOk
     THEN /\ HasFreeCall
          /\ Suspend(Calling("get_erc6960_balance", NullWallet, NullWallet, FALSE))
          /\ UNCHANGED response
     ELSE /\ Reply(ChainErrorBody("get_erc6960_balance"))
          /\ UNCHANGED inflight
  /\ NoRestore
  /\ UNCHANGED << phase, env, wallets, currentWallet, lastActiveWalletId, goatTools,
                  goatToolsLastWalletId, registered, logged >>
  /\ UNCHANGED wrapperVars

\* Mutant: the rejection escapes the handler and ends the process.
CatchChainErrorUnhandled(c) ==
  /\ phase' = "exited"
  /\ UNCHANGED response

\* catch (error) of a handler: the error text is returned as the result.  The
\* inner catch of get_wallet_info returns the wallet's data with a note instead.
CatchChainError(c) ==
  /\ Reply(IF c.op = "get_wallet_info"
           THEN WalletInfoBody(c, FALSE, goatToolsLastWalletId)
           ELSE ChainErrorBody(c.op))
  /\ UNCHANGED phase

\* The chain-client call of handler c resolves (for a write: the transaction is
\* sent and its receipt arrives).
ChainSucceeds(c) ==
  /\ c.stage = "chain"
  /\ inflight' = inflight (-) SetToBag({c})
  /\ Reply(IF c.op = "get_wallet_info" THEN WalletInfoBody(c, TRUE, goatToolsLastWalletId)
           ELSE IF c.op = "get_erc6960_balance" THEN [kind |-> "erc6960balance"]
           ELSE ChainSuccessBody(c))
  /\ NoRestore
  /\ UNCHANGED << phase, env, wallets, currentWallet, lastActiveWalletId, goatTools,
                  goatToolsLastWalletId, registered, logged >>
  /\ UNCHANGED wrapperVars

\* The chain-client call of handler c rejects (network, revert), or an argument
\* conversion on the way to it throws.
ChainFails(c) ==
  /\ c.stage = "chain"
  /\ inflight' = inflight (-) SetToBag({c})
  /\ CatchChainError(c)
  /\ NoRestore
  /\ UNCHANGED << env, wallets, currentWallet, lastActiveWalletId, goatTools,
                  goatToolsLastWalletId, registered, logged >>
  /\ UNCHANGED wrapperVars

NextOps ==
  \/ LogEnvironment
  \/ LoadWallets
  \/ RunServer
  \/ \E role \in SwitchRoles, provider \in Providers : SwitchTo(role, provider)
  \/ GetCurrentWallet
  \/ ListWallets
  \/ GoatTool
  \/ GetWalletInfo
  \/ \E argsOk \in BOOLEAN : MintNftAdvanced(argsOk)
  \/ \E op \in SignerOps, argsOk \in BOOLEAN : SignerOp(op, argsOk)
  \/ \E argsOk \in BOOLEAN : GetErc6960Balance(argsOk)
  \/ \E c \in Suspended : ConstructionFails(c)
  \/ \E c \in Suspended : ConstructionSucceeds(c)
  \/ \E c \in Suspended : RegistrationThrows(c)
  \/ \E c \in Suspended : ChainSucceeds(c)
  \/ \E c \in Suspended : ChainFails(c)

\* Dispatcher runs: as the server runs, the keys among the first MaxOpsSlot slots.
InitOps ==
  /\ Init
  /\ \A i \in Slots : i > MaxOpsSlot => env[i] = NoSecret

SpecOps == InitOps /\ [][NextOps]_vars

\* ------------------------------------------- the manager's methods, called directly
\* The ids a caller may pass to switchWallet: every configured id and an unknown one.
WalletIds == { configs[i].id : i \in Slots } \cup {"unknown"}

\* Mutant: the id is recorded as last active before it is looked up.
CallSwitchWalletRecordsUnknown(id) ==
  /\ phase = "loaded"
  /\ IF switchWalletFinds(id)
     THEN switchWallet(id)
     ELSE /\ lastActiveWalletId' = id
          /\ UNCHANGED currentWallet
  /\ Reply([kind |-> "switchWallet", ret |-> switchWalletFinds(id)])
  /\ NoRestore
  /\ UNCHANGED << phase, env, wallets, goatTools, goatToolsLastWalletId, registered,
                  inflight, logged >>
  /\ UNCHANGED wrapperVars

\* walletManager.switchWallet(id)
CallSwitchWallet(id) ==
  /\ phase = "loaded"
  /\ IF switchWalletFinds(id)
     THEN switchWallet(id)
     ELSE UNCHANGED << currentWallet, lastActiveWalletId >>
  /\ Reply([kind |-> "switchWallet", ret |-> switchWalletFinds(id)])
  /\ NoRestore
  /\ UNCHANGED << phase, env, wallets, goatTools, goatToolsLastWalletId, registered,
                  inflight, logged >>
  /\ UNCHANGED wrapperVars

\* walletManager.restoreLastActiveWallet()
CallRestoreLastActiveWallet ==
  /\ phase = "loaded"
  /\ restoreLastActiveWalletAssigns
  /\ Reply([kind |-> "restore", ret |-> (restoreLastActiveWallet # NullWallet)])
  /\ restoreAttempted' = TRUE
  /\ UNCHANGED << phase, env, wallets, goatTools, goatToolsLastWalletId, registered,
                  inflight, logged >>
  /\ UNCHANGED wrapperVars

\* The roles and providers a caller may pass to the lookups: every configured one
\* and one no slot has.
LookupRoles == { configs[i].role : i \in Slots } \cup {"unknown"}
LookupProviders == { configs[i].provider : i \in Slots } \cup {"unknown"}

\* walletManager.getWalletByRoleAndProvider(role, provider)
CallGetWalletByRoleAndProvider(role, provider) ==
  /\ phase = "loaded"
  /\ Reply([kind |-> "getWalletByRoleAndProvider", askedRole |-> role,
            askedProvider |-> provider,
            found |-> getWalletByRoleAndProvider(role, provider)])
  /\ NoRestore
  /\ UNCHANGED << phase, env, wallets, currentWallet, lastActiveWalletId, goatTools,
                  goatToolsLastWalletId, registered, inflight, logged >>
  /\ UNCHANGED wrapperVars

\* walletManager.getWalletsByRole(role)
CallGetWalletsByRole(role) ==
  /\ phase = "loaded"
  /\ Reply([kind |-> "getWalletsByRole", askedRole |-> role,
            listed |-> getWalletsByRole(role)])
  /\ NoRestore
  /\ UNCHANGED << phase, env, wallets, currentWallet, lastActiveWalletId, goatTools,
                  goatToolsLastWalletId, registered, inflight, logged >>
  /\ UNCHANGED wrapperVars

NextManager ==
  \/ LogEnvironment
  \/ LoadWallets
  \/ \E id \in WalletIds : CallSwitchWallet(id)
  \/ CallRestoreLastActiveWallet
  \/ \E role \in LookupRoles, provider \in LookupProviders :
       CallGetWalletByRoleAndProvider(role, provider)
  \/ \E role \in LookupRoles : CallGetWalletsByRole(role)

SpecManager == Init /\ [][NextManager]_vars

\* ------------------------------------------------- Polytrade721Wrapper.sol
NoRevert == "none"

\* A transaction that reverts: storage is as before, only the outcome is new.
Reverted(fn, reason) ==
  /\ receipt' = [fn |-> fn, status |-> "reverted", reason |-> reason]
  /\ UNCHANGED contractVars

Succeeded(fn) == receipt' = [fn |-> fn, status |-> "success", reason |-> NoRevert]

\* The owner of tokenId lets the wrapper move it, or withdraws that
\* (approve / setApprovalForAll of the ERC-721 contract, as wrapNFT reads them).
Approve(sender, tokenId, approved) ==
  /\ nftOwner[tokenId] = sender
  /\ nftApproved' = [nftApproved EXCEPT ![tokenId] = approved]
  /\ UNCHANGED << _balances, _totalSupply, _operatorApprovals, wrappedNFTs, nftToMainId,
                  _currentMainId, nftOwner, receipt >>
  /\ UNCHANGED sessionVars

\* The loop that adds up the shares: the first zero share or overflowing
\* addition reverts.
RECURSIVE SumShares(_, _, _)
SumShares(shares, i, totalShares) ==
  IF i > Len(shares) THEN [reason |-> NoRevert, totalShares |-> totalShares]
  ELSE IF ~(shares[i] > 0)
  THEN [reason |-> "Shares must be greater than 0", totalShares |-> totalShares]
  ELSE IF totalShares + shares[i] > MaxUint
  THEN [reason |-> "Panic(0x11)", totalShares |-> totalShares]
  ELSE SumShares(shares, i + 1, totalShares + shares[i])

\* The requires of wrapNFT in their order: the reason of the first that fails.
wrapNFTReverts(sender, tokenId, subIds, shares) ==
  IF Len(subIds) # Len(shares) THEN "Arrays length mismatch"
  ELSE IF ~(Len(subIds) > 0) THEN "Must create at least one sub ID"
  ELSE IF nftOwner[tokenId] # sender THEN "Not NFT owner"
  ELSE IF ~nftApproved[tokenId] THEN "Contract not approved"
  ELSE SumShares(shares, 1, 0).reason

\* The minting loop of wrapNFT for the new main id: each pass overwrites the
\* sender's balance, the supply and the recorded shares of subIds[i].
RECURSIVE MintLoop(_, _, _, _, _)
MintLoop(sender, subIds, shares, i, st) ==
  IF i > Len(subIds) THEN st
  ELSE LET subId == subIds[i]
           shareAmount == shares[i]
       IN MintLoop(sender, subIds, shares, i + 1,
                   [balances |-> [st.balances EXCEPT ![subId][sender] = shareAmount],
                    totalSupply |-> [st.totalSupply EXCEPT ![subId] = shareAmount],
                    subIdShares |-> [st.subIdShares EXCEPT ![subId] = shareAmount]])

\* wrapNFT(nftContract, tokenId, subIds, shares) sent by sender.
wrapNFT(sender, tokenId, subIds, shares) ==
  /\ LET reason == wrapNFTReverts(sender, tokenId, subIds, shares)
         mainId == _currentMainId
         st == MintLoop(sender, subIds, shares, 1,
                        [balances |-> _balances[mainId], totalSupply |-> _totalSupply[mainId],
                         subIdShares |-> wrappedNFTs[mainId].subIdShares])
     IN IF reason # NoRevert
        THEN Reverted("wrapNFT", reason)
        ELSE /\ _currentMainId <= MaxMainId
             /\ _currentMainId' = _currentMainId + 1
             /\ nftOwner' = [nftOwner EXCEPT ![tokenId] = Wrapper]
             /\ nftApproved' = [nftApproved EXCEPT ![tokenId] = FALSE]
             /\ wrappedNFTs' = [wrappedNFTs EXCEPT ![mainId] =
                                 [originalTokenId |-> tokenId, originalOwner |-> sender,
                                  totalShares |-> SumShares(shares, 1, 0).totalShares,
                                  mainId |-> mainId, isWrapped |-> TRUE,
                                  subIdShares |-> st.subIdShares]]
             /\ nftToMainId' = [nftToMainId EXCEPT ![tokenId] = mainId]
             /\ _balances' = [_balances EXCEPT ![mainId] = st.balances]
             /\ _totalSupply' = [_totalSupply EXCEPT ![mainId] = st.totalSupply]
             /\ UNCHANGED _operatorApprovals
             /\ Succeeded("wrapNFT")
  /\ UNCHANGED sessionVars

\* The ownership loop of unwrapNFT over checkSubIds.
RECURSIVE OwnedLoop(_, _, _, _)
OwnedLoop(sender, mainId, i, totalOwnedShares) ==
  IF i > Len(checkSubIds) THEN [reason |-> NoRevert, totalOwnedShares |-> totalOwnedShares]
  ELSE LET subId == checkSubIds[i]
       IN IF _totalSupply[mainId][subId] > 0
          THEN IF _balances[mainId][subId][sender] # _totalSupply[mainId][subId]
               THEN [reason |-> "Must own 100% of all shares",
                     totalOwnedShares |-> totalOwnedShares]
               ELSE IF totalOwnedShares + _balances[mainId][subId][sender] > MaxUint
               THEN [reason |-> "Panic(0x11)", totalOwnedShares |-> totalOwnedShares]
               ELSE OwnedLoop(sender, mainId, i + 1,
                              totalOwnedShares + _balances[mainId][subId][sender])
          ELSE OwnedLoop(sender, mainId, i + 1, totalOwnedShares)

\* Mutant: the total of the owned shares is not compared with totalShares.
unwrapNFTRevertsNoTotal(sender, mainId) ==
  IF ~wrappedNFTs[mainId].isWrapped THEN "NFT not wrapped"
  ELSE IF OwnedLoop(sender, mainId, 1, 0).reason # NoRevert
  THEN OwnedLoop(sender, mainId, 1, 0).reason
  ELSE IF nftOwner[wrappedNFTs[mainId].originalTokenId] # Wrapper
  THEN "ERC721: transfer from incorrect owner"
  ELSE NoRevert

\* The requires of unwrapNFT and of the transfer it makes: the reason of the
\* first that fails.
unwrapNFTReverts(sender, mainId) ==
  IF ~wrappedNFTs[mainId].isWrapped THEN "NFT not wrapped"
  ELSE IF OwnedLoop(sender, mainId, 1, 0).reason # NoRevert
  THEN OwnedLoop(sender, mainId, 1, 0).reason
  ELSE IF OwnedLoop(sender, mainId, 1, 0).totalOwnedShares # wrappedNFTs[mainId].totalShares
  THEN "Must own all shares"
  ELSE IF nftOwner[wrappedNFTs[mainId].originalTokenId] # Wrapper
  THEN "ERC721: transfer from incorrect owner"
  ELSE NoRevert

\* The burning loop of unwrapNFT over checkSubIds.
RECURSIVE BurnLoop(_, _, _)
BurnLoop(sender, i, st) ==
  IF i > Len(checkSubIds) THEN st
  ELSE LET subId == checkSubIds[i]
       IN IF st.totalSupply[subId] > 0
          THEN BurnLoop(sender, i + 1,
                        [balances |-> [st.balances EXCEPT ![subId][sender] = 0],
                         totalSupply |-> [st.totalSupply EXCEPT ![subId] = 0]])
          ELSE BurnLoop(sender, i + 1, st)

\* unwrapNFT(mainId) sent by sender.
unwrapNFT(sender, mainId) ==
  /\ LET reason == unwrapNFTReverts(sender, mainId)
         st == BurnLoop(sender, 1, [balances |-> _balances[mainId],
                                    totalSupply |-> _totalSupply[mainId]])
     IN IF reason # NoRevert
        THEN Reverted("unwrapNFT", reason)
        ELSE /\ _balances' = [_balances EXCEPT ![mainId] = st.balances]
             /\ _totalSupply' = [_totalSupply EXCEPT ![mainId] = st.totalSupply]
             /\ nftOwner' = [nftOwner EXCEPT ![wrappedNFTs[mainId].originalTokenId] = sender]
             /\ wrappedNFTs' = [wrappedNFTs EXCEPT ![mainId].isWrapped = FALSE]
             /\ UNCHANGED << _operatorApprovals, nftToMainId, _currentMainId, nftApproved >>
             /\ Succeeded("unwrapNFT")
  /\ UNCHANGED sessionVars

\* Mutant: both balances are read before either is written.
MoveSharesFromReads(balances, from, to, amount) ==
  [a \in Accounts |-> IF a = to THEN balances[to] + amount
                      ELSE IF a = from THEN balances[from] - amount
                      ELSE balances[a]]

\* _balances[..][from] -= amount; _balances[..][to] += amount, one after the other.
MoveShares(balances, from, to, amount) ==
  LET debited == [balances EXCEPT ![from] = balances[from] - amount]
  IN [debited EXCEPT ![to] = debited[to] + amount]

\* safeTransferFrom(from, to, mainId, subId, amount, data) sent by sender.
safeTransferFrom(sender, from, to, mainId, subId, amount) ==
  /\ IF ~(from = sender \/ _operatorApprovals[from][sender])
     THEN Reverted("safeTransferFrom", "Not approved")
     ELSE IF ~(_balances[mainId][subId][from] >= amount)
     THEN Reverted("safeTransferFrom", "Insufficient balance")
     ELSE IF MoveShares(_balances[mainId][subId], from, to, amount)[to] > MaxUint
     THEN Reverted("safeTransferFrom", "Panic(0x11)")
     ELSE /\ _balances' = [_balances EXCEPT ![mainId][subId] =
                             MoveShares(_balances[mainId][subId], from, to, amount)]
          /\ UNCHANGED << _totalSupply, _operatorApprovals, wrappedNFTs, nftToMainId,
                          _currentMainId, nftOwner, nftApproved >>
          /\ Succeeded("safeTransferFrom")
  /\ UNCHANGED sessionVars

\* setApprovalForAll(operator, approved) sent by sender.
setApprovalForAll(sender, operator, approved) ==
  /\ _operatorApprovals' = [_operatorApprovals EXCEPT ![sender][operator] = approved]
  /\ UNCHANGED << _balances, _totalSupply, wrappedNFTs, nftToMainId, _currentMainId,
                  nftOwner, nftApproved >>
  /\ Succeeded("setApprovalForAll")
  /\ UNCHANGED sessionVars

\* Every array of at most MaxSubIds elements of S.
ArraysOf(S) == UNION { [1..n -> S] : n \in 0..MaxSubIds }

NextWrapper ==
  \/ \E sender \in Accounts, tokenId \in Tokens, approved \in BOOLEAN :
       Approve(sender, tokenId, approved)
  \/ \E sender \in Accounts, tokenId \in Tokens,
         subIds \in ArraysOf(SubIdInputs), shares \in ArraysOf(Uints) :
       wrapNFT(sender, tokenId, subIds, shares)
  \/ \E sender \in Accounts, mainId \in MainIdInputs : unwrapNFT(sender, mainId)
  \/ \E sender, from, to \in Accounts, mainId \in MainIdInputs, subId \in SubIdInputs,
         amount \in Uints :
       safeTransferFrom(sender, from, to, mainId, subId, amount)
  \/ \E sender \in Accounts :
       \E operator \in Accounts \ {sender}, approved \in BOOLEAN :
         setApprovalForAll(sender, operator, approved)

\* Contract runs: the server does not run, the NFTs start with any of the accounts.
InitWrapper ==
  /\ env = [i \in Slots |-> NoSecret]
  /\ EmptySession
  /\ \E owners \in [Tokens -> Accounts] : Deployed(owners)

SpecWrapper == InitWrapper /\ [][NextWrapper]_vars

\* ------------------------------------------------------------- properties
MinOf(S) == CHOOSE x \in S : \A y \in S : x <= y

\* Registry positions by role / by role and provider, read off the registry itself.
IdxOfRole(role) == { i \in 1..Len(wallets) : wallets[i].role = role }
IdxExact(role, provider) ==
  { i \in 1..Len(wallets) : wallets[i].role = role /\ wallets[i].provider = provider }

\* The handlers this step suspended.
NewlySuspended ==
  { c \in BagToSet(inflight') : CopiesIn(c, inflight') > CopiesIn(c, inflight) }

\* C1: whenever a goat_* call is forwarded to a GOAT tool handler, that handler
\* was built from the credentials of the wallet active at that moment.
C1_GoatHandlerBoundToActive ==
  response.kind = "goat" => response.handler = response.active

\* C2: a successful switch sets the current wallet and the last-active id to the
\* found wallet, whose role is the requested one and whose provider is the
\* requested one whenever the registry holds an exact (role, provider) match.
C2_SwitchCommitsTarget ==
  [][ \A c \in NewlySuspended :
        c.op = "switch" =>
          /\ currentWallet'.id = c.local.id
          /\ lastActiveWalletId' = c.local.id
          /\ currentWallet' \in { wallets[i] : i \in 1..Len(wallets) }
          /\ currentWallet'.role = c.role
          /\ (IdxExact(c.role, c.provider) # {} => currentWallet'.provider = c.provider) ]_vars

C2_Witness ==
  \E c \in Suspended :
    /\ c.op = "switch"
    /\ currentWallet.id = c.local.id
    /\ currentWallet.provider = c.provider
    /\ currentWallet.provider # "metamask"
    /\ Cardinality(IdxOfRole(c.role)) > 1

\* C3: a switch for a role no wallet has returns the not-found error listing the
\* available wallets and changes neither the wallet fields nor the bound tool
\* set, and starts no construction.
C3_NotFoundLeavesState ==
  [][ \A role \in SwitchRoles, provider \in Providers :
        (SwitchTo(role, provider) /\ IdxOfRole(role) = {}) =>
          /\ response' = [kind |-> "IdentityNotFound", tool |-> role,
                          requested |-> provider, availableWallets |-> wallets]
          /\ UNCHANGED << currentWallet, lastActiveWalletId, goatTools,
                          goatToolsLastWalletId, registered, inflight >> ]_vars

C3_Witness ==
  /\ response.kind = "IdentityNotFound"
  /\ IdxOfRole(response.tool) = {}
  /\ Len(wallets) > 0
  /\ currentWallet # NullWallet

\* C4: with no exact (role, provider) match but some wallet of the role, the
\* switch selects the first wallet of the role in load order and the reply says
\* the provider was not honoured; it says so exactly when the selected wallet's
\* provider differs from the requested one.
C4_FallbackFirstOfRole ==
  response.kind = "switched" =>
    /\ IdxOfRole(response.tool) # {}
    /\ (IdxExact(response.tool, response.requested) = {} =>
          /\ response.wallet = wallets[MinOf(IdxOfRole(response.tool))]
          /\ response.notHonored)
    /\ (response.notHonored <=> response.wallet.provider # response.requested)
    /\ (response.notHonored <=> IdxExact(response.tool, response.requested) = {})

C4_Witness ==
  /\ response.kind = "switched"
  /\ response.notHonored
  /\ response.requested = "metamask"
  /\ response.wallet.id = "cm_seller"
  /\ Cardinality(IdxOfRole("seller")) > 1

\* The slots whose secret is admitted, read off the environment.
Admitted ==
  { i \in Slots : /\ env[i].set /\ env[i].has0x /\ env[i].digits = 64
                  /\ env[i].allHex /\ env[i].scalarOk }

\* C5: after the load the priority wallet catmm_seller is current if it was
\* loaded; else the first loaded seller, else the first loaded wallet; else
\* none.  The last-active id names the same wallet.
C5_DefaultSelection ==
  phase = "loaded" =>
    LET sellers == { i \in Admitted : configs[i].role = "seller" }
    IN /\ IF \E i \in Admitted : configs[i].id = "catmm_seller"
          THEN currentWallet.id = "catmm_seller"
          ELSE IF Admitted # {}
          THEN currentWallet.id =
                 configs[IF sellers # {} THEN MinOf(sellers) ELSE MinOf(Admitted)].id
          ELSE currentWallet = NullWallet
       /\ lastActiveWalletId = currentWallet.id
       /\ (currentWallet = NullWallet <=> Admitted = {})

C5_Witness ==
  /\ phase = "loaded"
  /\ currentWallet.id = "cvc_seller"
  /\ Len(wallets) > 2
  /\ wallets[1].role = "buyer"
  /\ env[1] = ZeroKey

\* Every committed switch suspends in exactly one construction of its own.
SwitchRebuildsOnce ==
  \A role \in SwitchRoles, provider \in Providers :
    (SwitchTo(role, provider) /\ IdxOfRole(role) # {}) =>
      /\ BagCardinality(inflight') = BagCardinality(inflight) + 1
      /\ \E c \in NewlySuspended : c.op = "switch" /\ c.currentWallet = currentWallet'

\* get_current_wallet runs right after a switch returned, nothing else in flight.
EnsureAfterSwitch ==
  /\ response.kind = "switched"
  /\ inflight = EmptyBag
  /\ GetCurrentWallet

\* C6 as stated: a switch and the ensure call after it trigger exactly one
\* construction, the forced one; the ensure call adds none.
C6_ExactlyOneRebuild ==
  [][ /\ SwitchRebuildsOnce
      /\ (EnsureAfterSwitch => inflight' = EmptyBag) ]_vars

\* C6 amended: every committed switch triggers exactly one construction (never
\* zero, also when already bound to the target); the ensure call after it adds
\* none when that construction succeeded and the target is still current, and
\* exactly one more otherwise.
C6_ForcedRebuildThenMemo ==
  [][ /\ SwitchRebuildsOnce
      /\ (EnsureAfterSwitch =>
            /\ BagCardinality(inflight') <= 1
            /\ (inflight' = EmptyBag <=>
                  (response.goatToolsReinitialized /\ currentWallet.id = response.wallet.id))) ]_vars

C6_Witness ==
  /\ response.kind = "switched"
  /\ ~response.goatToolsReinitialized
  /\ BagCardinality(inflight) = 1
  /\ \E c \in Suspended : c.op = "get_current_wallet" /\ c.currentWallet.id = response.wallet.id

\* What an ensure call does for the current wallet: nothing when a tool set
\* bound to it exists, one construction otherwise.
MemoOrConstruct ==
  IF goatTools # NoTools /\ goatToolsLastWalletId = currentWallet.id
  THEN UNCHANGED << goatTools, goatToolsLastWalletId, inflight >>
  ELSE /\ BagCardinality(inflight') = BagCardinality(inflight) + 1
       /\ \E c \in NewlySuspended : c.currentWallet = currentWallet
       /\ UNCHANGED << goatTools, goatToolsLastWalletId >>

\* C7: with a tool set bound to the current wallet, ensureGoatToolsForCurrentWallet
\* and initializeGoatTools() return true without constructing and without
\* touching the bound fields; in every other case with a current wallet they construct.
C7_EnsureMemoized ==
  [][ /\ (GetCurrentWallet /\ currentWallet # NullWallet) =>
            /\ MemoOrConstruct
            /\ (inflight' = inflight =>
                  response' = [kind |-> "current", wallet |-> currentWallet,
                               goatIntegration |-> TRUE, goatToolsWalletMatch |-> TRUE])
      /\ (RunServer /\ currentWallet # NullWallet) => MemoOrConstruct ]_vars

C7_Witness ==
  /\ response.kind = "current"
  /\ response.goatIntegration
  /\ inflight = EmptyBag
  /\ goatTools # NoTools
  /\ goatToolsLastWalletId = currentWallet.id
  /\ registered = goatTools

\* C8: a failed construction clears both bound fields and returns false, leaves
\* the wallet fields as the switch committed them, and the request still gets
\* its result; identity operations stay available.
C8_FailSoft ==
  /\ [][ \A c \in Suspended :
           (ConstructionFails(c) \/ RegistrationThrows(c)) =>
             /\ goatTools' = NoTools
             /\ goatToolsLastWalletId' = None
             /\ UNCHANGED << currentWallet, lastActiveWalletId, wallets >>
             /\ (c.op = "switch" =>
                   /\ response'.kind = "switched"
                   /\ response'.wallet = c.local
                   /\ response'.goatToolsReinitialized = FALSE)
             /\ (c.op = "get_current_wallet" =>
                   /\ response'.kind = "current"
                   /\ response'.goatIntegration = FALSE)
             /\ (c.op = "runServer" => phase' = "serving") ]_vars
  /\ [](phase = "serving" =>
          /\ ENABLED ListWallets
          /\ (HasFreeSlot =>
                /\ ENABLED GetCurrentWallet
                /\ \A role \in SwitchRoles, provider \in Providers :
                     ENABLED SwitchTo(role, provider)))

C8_Witness ==
  /\ response.kind = "switched"
  /\ ~response.goatToolsReinitialized
  /\ goatTools = NoTools
  /\ goatToolsLastWalletId = None
  /\ currentWallet.id = response.wallet.id
  /\ lastActiveWalletId = response.wallet.id
  /\ inflight = EmptyBag

\* C9: whenever ensureGoatToolsForCurrentWallet returns true to an operation,
\* the marker names the wallet that is current at that moment.
C9_ReadyMeansBoundToCurrent ==
  [][ (response' # response /\ response'.kind = "current" /\ response'.goatIntegration) =>
        goatToolsLastWalletId' = currentWallet'.id ]_vars

\* C10: the current wallet is unset or a wallet of the registry, and the
\* last-active id never lags behind it, in every state a handler can observe.
C10_SessionFieldsAtomic ==
  phase # "boot" =>
    /\ (currentWallet = NullWallet \/ currentWallet \in { wallets[i] : i \in 1..Len(wallets) })
    /\ (currentWallet # NullWallet => lastActiveWalletId = currentWallet.id)

C10_Witness ==
  /\ BagCardinality(inflight) = 2
  /\ \A c \in Suspended : c.op = "switch"
  /\ \E c \in Suspended : c.local.id # currentWallet.id
  /\ lastActiveWalletId = currentWallet.id

\* The last-active id names a wallet of the registry.
LastResolves ==
  /\ lastActiveWalletId # None
  /\ \E i \in 1..Len(wallets) : wallets[i].id = lastActiveWalletId

\* C11 as stated: restoreLastActiveWallet returns true and makes the last-active
\* wallet current exactly when no wallet is current and the last-active id
\* resolves; in every other case it returns false and changes nothing.
C11_RestoreOnlyWhenUnset ==
  [][ CallRestoreLastActiveWallet =>
        LET acts == currentWallet = NullWallet /\ LastResolves
        IN /\ response'.ret = acts
           /\ (acts => currentWallet'.id = lastActiveWalletId)
           /\ (~acts => UNCHANGED << currentWallet, lastActiveWalletId >>)
           /\ UNCHANGED << lastActiveWalletId, wallets >> ]_vars

\* C11 amended: restoreLastActiveWallet returns true and makes the last-active
\* wallet current exactly when the last-active id resolves, whether or not a
\* wallet is current; otherwise it returns false and changes nothing.
C11_RestoreWhenResolves ==
  [][ CallRestoreLastActiveWallet =>
        /\ response'.ret = LastResolves
        /\ (LastResolves =>
              /\ currentWallet'.id = lastActiveWalletId
              /\ currentWallet' \in { wallets[i] : i \in 1..Len(wallets) })
        /\ (~LastResolves => UNCHANGED << currentWallet, lastActiveWalletId >>)
        /\ UNCHANGED << lastActiveWalletId, wallets >> ]_vars

C11_Witness ==
  /\ response.kind = "restore"
  /\ response.ret
  /\ currentWallet.id = lastActiveWalletId
  /\ currentWallet.id = "cm_buyer"
  /\ Len(wallets) > 1

\* C12: when the last-active id resolves, restoreLastActiveWallet returns true,
\* and a second call right after it returns true again with the same wallet
\* current after each call.
C12_RestoreIdempotent ==
  [][ CallRestoreLastActiveWallet =>
        /\ (LastResolves => response'.ret)
        /\ ((response.kind = "restore" /\ response.ret) =>
              /\ response'.ret
              /\ currentWallet' = currentWallet
              /\ currentWallet'.id = lastActiveWalletId') ]_vars

\* A restore has returned true and the next call can follow it directly.
C12_Witness ==
  /\ response.kind = "restore"
  /\ response.ret
  /\ restoreAttempted
  /\ ENABLED CallRestoreLastActiveWallet
  /\ currentWallet # NullWallet
  /\ currentWallet # DefaultWallet(wallets)

\* A step of one of the seven handlers that work with the current wallet.
IdentityOp ==
  \/ GetCurrentWallet
  \/ GetWalletInfo
  \/ \E argsOk \in BOOLEAN : MintNftAdvanced(argsOk)
  \/ \E op \in SignerOps, argsOk \in BOOLEAN : SignerOp(op, argsOk)

\* A step of one of the two handlers that read without a wallet.
WalletFreeOp ==
  \/ ListWallets
  \/ \E argsOk \in BOOLEAN : GetErc6960Balance(argsOk)

\* The handlers this step suspended in a signing chain-client call.
NewSigning == { c \in NewlySuspended : c.stage = "chain" /\ c.op \in SignerOps \cup {"mint_nft_advanced"} }

\* C13 as stated: every dispatcher operation, run with no wallet current, first
\* attempts the restore, and none returns the no-active-wallet result or
\* reaches a signing call without having attempted it.
C13_EveryOpRestoresFirst ==
  [][ /\ ((IdentityOp \/ WalletFreeOp) /\ currentWallet = NullWallet) => restoreAttempted'
      /\ ((IdentityOp \/ WalletFreeOp) /\ response'.kind = "NoActiveIdentity") => restoreAttempted' ]_vars

\* C13 amended: each of the seven handlers that work with the current wallet,
\* run with no wallet current, attempts the restore and returns the
\* no-active-wallet result only if still none is current; none of them reaches
\* a signing call without a wallet.  list_wallets and get_erc6960_balance need
\* no wallet: they attempt no restore and never return that result.
C13_IdentityOpsRestoreFirst ==
  [][ /\ (IdentityOp /\ currentWallet = NullWallet) =>
            /\ restoreAttempted'
            /\ (response'.kind = "NoActiveIdentity" <=> currentWallet' = NullWallet)
            /\ (currentWallet' # NullWallet => currentWallet'.id = lastActiveWalletId)
      /\ (IdentityOp /\ response'.kind = "NoActiveIdentity") =>
            restoreAttempted' /\ ~LastResolves
      /\ (\A c \in NewSigning : c.currentWallet # NullWallet /\ currentWallet' # NullWallet)
      /\ (WalletFreeOp =>
            /\ ~restoreAttempted'
            /\ (response' # response => response'.kind # "NoActiveIdentity")) ]_vars

C13_Witness ==
  /\ phase = "serving"
  /\ response = [kind |-> "NoActiveIdentity", op |-> "mint_erc6960_batch"]
  /\ restoreAttempted
  /\ currentWallet = NullWallet

\* The load admitted no wallet and the manager is constructed.
NoValidSlots == phase \notin {"boot", "module"} /\ wallets = << >>

\* C14 as stated: with no valid slot the startup completes, no wallet is
\* current, and every dispatcher operation, list_wallets and
\* get_erc6960_balance included, returns the no-active-wallet result.
C14_AllOpsNoActive ==
  NoValidSlots =>
    /\ phase # "exited"
    /\ currentWallet = NullWallet
    /\ response.kind \in {None, "NoActiveIdentity", "IdentityNotFound"}

\* C14 amended: with no valid slot the startup completes without exiting, no
\* wallet is current, and each of the seven handlers that work with the
\* current wallet returns the no-active-wallet result; list_wallets returns
\* the empty listing with no current wallet and get_erc6960_balance makes its
\* read, neither returns the no-active-wallet result.
C14_IdentityOpsNoActive ==
  /\ [][ NoValidSlots =>
            /\ (GetCurrentWallet => response' = [kind |-> "NoActiveIdentity", op |-> "get_current_wallet"])
            /\ (GetWalletInfo => response' = [kind |-> "NoActiveIdentity", op |-> "get_wallet_info"])
            /\ (\A argsOk \in BOOLEAN : MintNftAdvanced(argsOk) =>
                  response' = [kind |-> "NoActiveIdentity", op |-> "mint_nft_advanced"])
            /\ (\A op \in SignerOps, argsOk \in BOOLEAN : SignerOp(op, argsOk) =>
                  response' = [kind |-> "NoActiveIdentity", op |-> op])
            /\ (ListWallets =>
                  response' = [kind |-> "list", total |-> 0, currentWallet |-> None])
            /\ (\A argsOk \in BOOLEAN : GetErc6960Balance(argsOk) =>
                  \/ response' = [kind |-> "ChainOperationFailed", op |-> "get_erc6960_balance"]
                  \/ /\ UNCHANGED response
                     /\ \E c \in NewlySuspended : c.op = "get_erc6960_balance")
            /\ (RunServer => phase' = "serving") ]_vars
  /\ [](NoValidSlots =>
          /\ phase \in {"loaded", "serving"}
          /\ currentWallet = NullWallet /\ lastActiveWalletId = None
          /\ goatTools = NoTools /\ registered = NoTools
          /\ (phase = "loaded" => ENABLED RunServer)
          /\ (phase = "serving" =>
                /\ ENABLED GetCurrentWallet /\ ENABLED GetWalletInfo /\ ENABLED ListWallets
                /\ \A op \in SignerOps : ENABLED SignerOp(op, TRUE)))

C14_Witness ==
  /\ NoValidSlots
  /\ phase = "serving"
  /\ response = [kind |-> "NoActiveIdentity", op |-> "get_wallet_info"]
  /\ \A i \in Slots : ~env[i].set

\* The slots whose secret passes the format rule: set, not the bare prefix,
\* the prefix followed by exactly 64 hex digits.
PassingRule ==
  { i \in Slots : /\ env[i].set /\ env[i].has0x /\ env[i].digits = 64 /\ env[i].allHex }

\* The slot a registry entry came from.
SlotOf(k) == CHOOSE i \in Slots : configs[i].id = wallets[k].id

\* C15 as stated: after the load the registry holds as many wallets as there
\* are slots whose secret passes the format rule.
C15_CountEqualsPassingRule ==
  phase = "loaded" => Len(wallets) = Cardinality(PassingRule)

\* C15 amended: after the load the registry holds exactly the slots whose
\* secret passes the format rule and whose key the address derivation accepts,
\* once each and in slot order; a slot that fails either test is skipped and
\* the slots after it are still loaded.
C15_CountEqualsAdmitted ==
  phase = "loaded" =>
    /\ Len(wallets) = Cardinality(Admitted)
    /\ { SlotOf(k) : k \in 1..Len(wallets) } = Admitted
    /\ \A k, l \in 1..Len(wallets) : k < l => SlotOf(k) < SlotOf(l)
    /\ \A k \in 1..Len(wallets) : wallets[k] = WalletOf(SlotOf(k))
    /\ Admitted \subseteq PassingRule

C15_Witness ==
  /\ phase = "loaded"
  /\ env[1] = PlaceholderKey
  /\ env[2] = ZeroKey
  /\ env[3] = GoodKey
  /\ env[4] = NoSecret
  /\ Len(wallets) = 4
  /\ wallets[1].id = "catmm_financier"

\* C16: no configured secret is ever written to the log in full.
C16_NoSecretLogged == logged = {}

C18_SessionFrame ==
  [][ (currentWallet' # currentWallet \/ lastActiveWalletId' # lastActiveWalletId) =>
        \/ LoadWallets
        \/ \E role \in SwitchRoles, provider \in Providers :
             SwitchTo(role, provider) /\ IdxOfRole(role) # {}
        \/ /\ IdentityOp
           /\ currentWallet = NullWallet /\ LastResolves
           /\ currentWallet'.id = lastActiveWalletId
           /\ UNCHANGED lastActiveWalletId ]_vars

\* A signing operation has completed on a switched-to wallet with tools bound.
C18_Witness ==
  /\ response.kind = "success"
  /\ response.op = "transfer_erc6960"
  /\ response.signer = currentWallet.id
  /\ currentWallet # DefaultWallet(wallets)
  /\ lastActiveWalletId = currentWallet.id
  /\ goatTools # NoTools

\* C19: once loaded the registry never changes: the same wallets in the same
\* order with the same id, role, provider and address the load derived from
\* the environment.
C19_RegistryFixed ==
  /\ [][ phase \notin {"boot", "module"} => UNCHANGED << wallets, env >> ]_vars
  /\ [](phase \notin {"boot", "module"} =>
          /\ wallets = LoadedWallets(env)
          /\ \A k, l \in 1..Len(wallets) : wallets[k].id = wallets[l].id => k = l)

\* Switches, a failed rebuild and a failed chain operation have all happened.
C19_Witness ==
  /\ Len(wallets) = 2
  /\ response.kind = "ChainOperationFailed"
  /\ goatTools = NoTools
  /\ registered # NoTools
  /\ currentWallet # DefaultWallet(wallets)
  /\ inflight # EmptyBag

\* C20: a goat_* call reaches only the most recently constructed tool set; a
\* tool set that a rebuild replaced or a failed rebuild dropped is not invocable.
C20_OnlyLiveToolSetInvocable ==
  [][ GoatTool => registered = goatTools ]_vars

\* C21: registry lookups follow load order and are total.  A lookup by role and
\* provider returns the first loaded identity (lowest slot) that has exactly that
\* role and provider, or none when no loaded identity has both; a lookup by role
\* returns every loaded identity of the role, in load order, or the empty list.
\* Every lookup returns (no call is left without a reply).
SlotOfId(id) == CHOOSE i \in Slots : configs[i].id = id

SlotsLoadedAs(role) == { i \in Admitted : configs[i].role = role }

C21_LookupsFollowLoadOrder ==
  /\ response.kind = "getWalletByRoleAndProvider" =>
       LET hits == { i \in SlotsLoadedAs(response.askedRole) :
                       configs[i].provider = response.askedProvider }
       IN IF hits = {}
          THEN response.found = NullWallet
          ELSE /\ response.found.id = configs[MinOf(hits)].id
               /\ response.found.role = response.askedRole
               /\ response.found.provider = response.askedProvider
  /\ response.kind = "getWalletsByRole" =>
       LET hits == SlotsLoadedAs(response.askedRole)
           l == response.listed
       IN /\ Len(l) = Cardinality(hits)
          /\ { l[k].id : k \in 1..Len(l) } = { configs[i].id : i \in hits }
          /\ \A j, k \in 1..Len(l) : j < k => SlotOfId(l[j].id) < SlotOfId(l[k].id)
  /\ phase = "loaded" =>
       /\ \A role \in LookupRoles, provider \in LookupProviders :
            ENABLED CallGetWalletByRoleAndProvider(role, provider)
       /\ \A role \in LookupRoles : ENABLED CallGetWalletsByRole(role)

\* Two identities of one role and different providers are loaded and a lookup by
\* role and provider has passed over the earlier one and returned the later one.
C21_Witness ==
  /\ response.kind = "getWalletByRoleAndProvider"
  /\ response.found # NullWallet
  /\ Len(wallets) = 2
  /\ response.found = wallets[2]
  /\ wallets[1].role = response.askedRole
\* C27: in every state of the manager, from its construction on and after any
\* sequence of switchWallet and restoreLastActiveWallet calls, successful or not,
\* currentWallet and lastActiveWalletId are both null, or lastActiveWalletId is
\* the id of currentWallet.
C27_ActiveAndLastAgree ==
  \/ currentWallet = NullWallet /\ lastActiveWalletId = None
  \/ currentWallet # NullWallet /\ lastActiveWalletId = currentWallet.id

\* A switchWallet call for an unknown id has just returned false in a manager that
\* an earlier call had moved off its default wallet.
C27_Witness ==
  /\ response = [kind |-> "switchWallet", ret |-> FALSE]
  /\ currentWallet # NullWallet
  /\ currentWallet # DefaultWallet(wallets)
\* C22: concurrent switches are last-writer-wins.  A switch dispatched while
\* another handler is suspended at an await commits its own target (the exact
\* match, else the first wallet of the role) to the current wallet and to the
\* last-active id at once; while handlers are suspended nothing but a further
\* switch changes either field, so once all have resumed both fields name the
\* target of the switch whose commit ran last.
C22_LastWriterWins ==
  [][ /\ \A role \in SwitchRoles, provider \in Providers :
          (SwitchTo(role, provider) /\ inflight # EmptyBag /\ IdxOfRole(role) # {}) =>
            LET k == IF IdxExact(role, provider) # {}
                     THEN MinOf(IdxExact(role, provider))
                     ELSE MinOf(IdxOfRole(role))
            IN /\ currentWallet' = wallets[k]
               /\ lastActiveWalletId' = wallets[k].id
      /\ (/\ inflight # EmptyBag
          /\ \/ currentWallet' # currentWallet
             \/ lastActiveWalletId' # lastActiveWalletId) =>
            \E role \in SwitchRoles, provider \in Providers :
              SwitchTo(role, provider) /\ IdxOfRole(role) # {} ]_vars

\* Two switches for different roles are suspended in their rebuilds; the fields
\* name the target of one of them and not the other's.
C22_Witness ==
  /\ BagCardinality(inflight) = 2
  /\ \E c, d \in Suspended :
       /\ c.op = "switch" /\ d.op = "switch"
       /\ c.role # d.role
       /\ c.local.id # d.local.id
       /\ currentWallet = d.local
       /\ lastActiveWalletId = d.local.id
\* C24: in every state, also between interleaved rebuilds, goatTools and
\* goatToolsLastWalletId are both null or both non-null, and when they are
\* non-null the marker is the id of the wallet whose credentials the tool set
\* was built from.
C24_ToolsAndMarkerPaired ==
  /\ goatTools = NoTools <=> goatToolsLastWalletId = None
  /\ goatTools # NoTools => goatToolsLastWalletId = goatTools.wallet

\* An older rebuild has resumed after a switch committed, while the rebuild of
\* that switch is still suspended: a tool set is bound, for a wallet that is no
\* longer current.
C24_Witness ==
  /\ goatTools # NoTools
  /\ goatToolsLastWalletId # currentWallet.id
  /\ \E c \in Suspended : c.op = "switch" /\ c.currentWallet = currentWallet

\* C25: once every in-flight operation has completed, after any interleaving of
\* switches and rebuilds, goatToolsLastWalletId is null or the id of the wallet
\* that is current.
C25_QuiescentMarkerIsActive ==
  (phase = "serving" /\ inflight = EmptyBag) =>
    (goatToolsLastWalletId = None \/ goatToolsLastWalletId = currentWallet.id)
\* C26: the wallet a mint_nft_advanced success result names is the wallet whose
\* key signed the transaction, also when a switch was processed while the handler
\* was suspended in ensureGoatToolsForCurrentWallet.
C26_MintNamesSigner ==
  (response.kind = "success" /\ response.op = "mint_nft_advanced") =>
    response.walletName = response.signer
\* C28: once a wallet is current it is never unset: no step sets currentWallet
\* back to null.  So from a startup that loaded at least one wallet every state
\* has a current wallet and no operation returns the NoActiveIdentity result.
C28_ActiveNeverUnset ==
  /\ [][ currentWallet # NullWallet => currentWallet' # NullWallet ]_vars
  /\ [](NoValidSlots \/ phase \in {"boot", "module"} \/
          (currentWallet # NullWallet /\ response.kind # "NoActiveIdentity"))

\* A startup that loaded no seller: the load's fallback made a wallet current, and
\* a signing operation has completed on the current wallet while a switch is
\* suspended in its rebuild.
C28_Witness ==
  /\ phase = "serving"
  /\ wallets # << >>
  /\ \A i \in 1..Len(wallets) : wallets[i].role # "seller"
  /\ response.kind = "success"
  /\ response.signer = currentWallet.id
  /\ \E c \in Suspended : c.op = "switch"
\* The sub ids wrapNFT minted for mainId, as the wrap recorded them.
MintedSubIds(mainId) == { s \in SubIdInputs : wrappedNFTs[mainId].subIdShares[s] > 0 }

RECURSIVE SumOver(_, _)
SumOver(f, S) ==
  IF S = {} THEN 0
  ELSE LET x == CHOOSE y \in S : TRUE IN f[x] + SumOver(f, S \ {x})

\* sender owns 100% of the shares of mainId: for every sub id wrapNFT minted
\* its balance is the whole supply, and these balances add up to totalShares.
OwnsAllShares(sender, mainId) ==
  /\ \A s \in MintedSubIds(mainId) :
       _balances[mainId][s][sender] = _totalSupply[mainId][s]
  /\ SumOver([s \in SubIdInputs |-> _balances[mainId][s][sender]], MintedSubIds(mainId))
       = wrappedNFTs[mainId].totalShares

\* C23: unwrapNFT(mainId) transfers the original NFT back to the caller and marks
\* the record unwrapped only when the NFT is wrapped and the caller owns 100% of
\* all shares of mainId; in every other case it reverts and leaves balances,
\* supplies, the wrapped record and the custody of the NFT unchanged.
C23_UnwrapOnlyByFullOwner ==
  [][ \A sender \in Accounts, mainId \in MainIdInputs :
        unwrapNFT(sender, mainId) =>
          IF wrappedNFTs[mainId].isWrapped /\ OwnsAllShares(sender, mainId)
          THEN receipt'.status = "success" =>
                 /\ nftOwner'[wrappedNFTs[mainId].originalTokenId] = sender
                 /\ ~wrappedNFTs'[mainId].isWrapped
          ELSE /\ receipt' = [fn |-> "unwrapNFT", status |-> "reverted",
                              reason |-> unwrapNFTReverts(sender, mainId)]
               /\ unwrapNFTReverts(sender, mainId) # NoRevert
               /\ UNCHANGED << _balances, _totalSupply, wrappedNFTs, nftOwner >> ]_vars

\* The shares of a wrapped NFT went to another account, which has unwrapped it
\* and holds the NFT.
C23_Witness ==
  /\ receipt = [fn |-> "unwrapNFT", status |-> "success", reason |-> NoRevert]
  /\ \E m \in MainIds :
       /\ ~wrappedNFTs[m].isWrapped
       /\ wrappedNFTs[m].totalShares > 0
       /\ nftOwner[wrappedNFTs[m].originalTokenId] \in Accounts
       /\ nftOwner[wrappedNFTs[m].originalTokenId] # wrappedNFTs[m].originalOwner

\* C29: for every main id and sub id the balances of all accounts add up to the
\* total supply, after any sequence of wrapNFT, safeTransferFrom (also with
\* from = to and with amount zero), setApprovalForAll and unwrapNFT, successful
\* or reverted.
C29_BalancesSumToSupply ==
  \A m \in MainIdInputs, s \in SubIdInputs :
    SumOver(_balances[m][s], Accounts) = _totalSupply[m][s]

\* A transfer has just gone through and two accounts hold shares of one sub id.
C29_Witness ==
  /\ receipt = [fn |-> "safeTransferFrom", status |-> "success", reason |-> NoRevert]
  /\ \E m \in MainIds, s \in SubIdInputs :
       Cardinality({ a \in Accounts : _balances[m][s][a] > 0 }) > 1

\* C30: a wrapped NFT can always be recovered by whoever holds all of its shares:
\* after any successful wrapNFT (any non-empty list of sub ids, also sub ids other
\* than 101 and 102 and repeated sub ids), whenever one account holds the entire
\* supply of every sub id of the main id and the NFT is still wrapped,
\* unwrapNFT(mainId) sent by that account does not revert.
C30_FullHolderCanUnwrap ==
  \A m \in MainIds, a \in Accounts :
    (/\ wrappedNFTs[m].isWrapped
     /\ \A s \in SubIdInputs : _balances[m][s][a] = _totalSupply[m][s]) =>
      unwrapNFTReverts(a, m) = NoRevert
====







